---- MODULE Spec2Model ----
(***************************************************************************)
(* A model of gpr_isotropy/sample.py: the RoModel hierarchy (IsoRoModel,   *)
(* PixRoModel, YlmRoModel, ExpYlmRoModel), logpost, and the Sampler class  *)
(* (construction, initialize, sample) together with the checkpoint file    *)
(* the Sampler reads and writes.                                           *)
(*                                                                         *)
(* Every method is modelled statement by statement: an action is one       *)
(* statement (or one run of statements that cannot fail), and an exception *)
(* raised by a statement is recorded in exc and propagated by the actions  *)
(* that model the enclosing finally / with blocks.                         *)
(***************************************************************************)
EXTENDS Integers, Sequences, FiniteSets, TLC

(* ----------------------------- bounds ---------------------------------- *)
MaxWalkers == 2      \* walker counts passed directly to RoModel.initialize
MaxDraw == 2         \* gamma.rvs draws are taken from 1..MaxDraw (support of the law: > 0)
MaxSamples == 2      \* num_samples passed to sample ranges over 0..MaxSamples
MaxRecords == 2      \* iteration records in a checkpoint file found on disk

(* ------------------------- values and helpers -------------------------- *)
NSides == {1, 2}

Unset == [set |-> FALSE]

Val(v) == [set |-> TRUE, val |-> v]

Const(n, v) == [i \in 1..n |-> v]

RECURSIVE SumSeq(_)
SumSeq(s) == IF s = << >> THEN 0 ELSE Head(s) + SumSeq(Tail(s))

Range(s) == {s[i] : i \in DOMAIN s}

(* hp.nside2npix *)
nside2npix(n) == 12 * n * n

(* healpy's check behind hp.ud_grade: is this length the pixel count of a resolution *)
isnpixok(n) == \E k \in 1..n : n = 12 * k * k

(* ------------------------------ RoModel -------------------------------- *)
Variants == {"IsoRoModel", "PixRoModel", "YlmRoModel", "ExpYlmRoModel"}

(* _allowed_params of each class *)
allowed_params(variant) == IF variant = "IsoRoModel" THEN {} ELSE {"ro_nside"}

(* RoModel.__init__ and the params setter: the object, or the failed assertion *)
RoModel_init(variant, n, params) ==
    IF params.keys = allowed_params(variant)
    THEN [out |-> "ok", obj |-> [variant |-> variant, nside |-> n, params |-> params]]
    ELSE [out |-> "AssertionError"]

(* ndim with the harmonic classes answering like the pixelized one (the
   return statement left as a comment in YlmRoModel.ndim) *)
ndim_harmonic_npix(m) ==
    IF m.variant = "IsoRoModel"
    THEN [out |-> "ok", val |-> 1]
    ELSE [out |-> "ok", val |-> nside2npix(m.params.ro_nside)]

(* the ndim property of each class *)
ndim(m) ==
    CASE m.variant = "IsoRoModel" -> [out |-> "ok", val |-> 1]
      [] m.variant = "PixRoModel" -> [out |-> "ok", val |-> nside2npix(m.params.ro_nside)]
      [] OTHER -> [out |-> "NotImplementedError"]

(* IsoRoModel.__call__ returning r itself, the product with the vector of
   ones left out *)
IsoCall_unbroadcast(m, r) ==
    IF Len(r) = 1 \/ Len(r) = nside2npix(m.nside)
    THEN [out |-> "ok", val |-> r]
    ELSE [out |-> "ValueError"]

(* numpy's product of the length-npix vector of ones with r: r of length 1 is
   broadcast, r of length npix is multiplied element by element, any other
   length cannot be broadcast *)
IsoCall(m, r) ==
    LET npix == nside2npix(m.nside) IN
    IF Len(r) = 1 THEN [out |-> "ok", val |-> [i \in 1..npix |-> 1 * r[1]]]
    ELSE IF Len(r) = npix THEN [out |-> "ok", val |-> [i \in 1..npix |-> 1 * r[i]]]
    ELSE [out |-> "ValueError"]

(* hp.ud_grade(ro_pix, self.nside, power=-2): healpy rejects a length that is no
   pixel count; a field already at self.nside comes back unchanged.  A field
   at a finer resolution is averaged over the pixels it covers and scaled by
   (nside_out/nside_in)^power = n/npix; the finer fields of ParamVectors are
   uniform, so the average is the value of any pixel.  (The models of
   RModelArgs have nside = 1, the coarsest resolution: no field is coarser.) *)
PixCall(m, ro_pix) ==
    LET n == Len(ro_pix)
        npix == nside2npix(m.nside)
    IN  IF ~isnpixok(n) THEN [out |-> "TypeError"]
        ELSE IF n = npix THEN [out |-> "ok", val |-> ro_pix]
        ELSE [out |-> "ok", val |-> Const(npix, ro_pix[1] * (n \div npix))]

(* __call__ of each class *)
transform(m, params) ==
    CASE m.variant = "IsoRoModel" -> IsoCall(m, params)
      [] m.variant = "PixRoModel" -> PixCall(m, params)
      [] OTHER -> [out |-> "NotImplementedError"]

(* the count summed over all pixels of all maps *)
TotalCount(mps) == SumSeq([k \in DOMAIN mps |-> SumSeq(mps[k])])

(* IsoRoModel.initialize with the shape taken from the summed counts in place
   of the number of maps *)
IsoInitialize_totalcount(m, mps, expo, nwalkers, draws) ==
    [out |-> "ok",
     shape |-> TotalCount(mps) + 1,
     val |-> [w \in 1..nwalkers |-> << [num |-> draws[w], den |-> SumSeq(expo)] >>]]

(* IsoRoModel.initialize: gamma.rvs(len(maps)+1, size=nwalkers), divided by
   np.sum(exposure), reshaped to (nwalkers, ndim).  draws is what gamma.rvs
   returned; an entry is the rational num/den. *)
IsoInitialize(m, mps, expo, nwalkers, draws) ==
    [out |-> "ok",
     shape |-> Len(mps) + 1,
     val |-> [w \in 1..nwalkers |-> << [num |-> draws[w], den |-> SumSeq(expo)] >>]]

(* PixRoModel.initialize: the maps and the exposure are resampled with
   hp.ud_grade (which rejects a length that is no pixel count), the state is
   allocated, and the first pass of the loop over pix reads maps[i] with i
   never bound *)
PixInitialize(m, mps, expo, nwalkers, draws) ==
    IF (\E k \in DOMAIN mps : ~isnpixok(Len(mps[k]))) \/ ~isnpixok(Len(expo))
    THEN [out |-> "TypeError"]
    ELSE [out |-> "NameError"]

(* initialize of each class *)
rmodel_initialize(m, mps, expo, nwalkers, draws) ==
    CASE m.variant = "IsoRoModel" -> IsoInitialize(m, mps, expo, nwalkers, draws)
      [] m.variant = "PixRoModel" -> PixInitialize(m, mps, expo, nwalkers, draws)
      [] OTHER -> [out |-> "NotImplementedError"]

(* the evaluators a caller hands to logpost as ro_post: pure functions of the
   field, here minus its sum and minus its first entry *)
Evaluators == {"neg_sum", "neg_first"}

Evaluate(ro_post, field) ==
    IF ro_post = "neg_sum" THEN 0 - SumSeq(field) ELSE 0 - field[1]

(* logpost: ro_post(ro_model(params)); an exception of the transform
   propagates and the evaluator is not called *)
logpost(params, ro_model, ro_post) ==
    LET field == transform(ro_model, params)
    IN  IF field.out # "ok"
        THEN [out |-> field.out]
        ELSE [out |-> "ok", val |-> Evaluate(ro_post, field.val)]

(* --------------------------- input domains ----------------------------- *)
NoParams == [keys |-> {}, ro_nside |-> 0]

RoNside(n) == [keys |-> {"ro_nside"}, ro_nside |-> n]

(* the arguments a client passes to a RoModel class; the pixelized and the
   harmonic models are at nside = 1 *)
RModelArgs ==
    { [variant |-> "IsoRoModel", nside |-> 1, params |-> NoParams],
      [variant |-> "IsoRoModel", nside |-> 2, params |-> NoParams],
      [variant |-> "PixRoModel", nside |-> 1, params |-> RoNside(1)],
      [variant |-> "PixRoModel", nside |-> 1, params |-> NoParams],
      [variant |-> "YlmRoModel", nside |-> 1, params |-> RoNside(1)],
      [variant |-> "ExpYlmRoModel", nside |-> 1, params |-> RoNside(1)] }

(* observed maps: lists of count maps of 11, 12 or 48 pixels *)
MapsArgs ==
    { << Const(12, 0) >>,
      << Const(12, 0), [i \in 1..12 |-> IF i = 1 THEN 3 ELSE 0] >>,
      << Const(12, 0), Const(11, 0) >>,
      << Const(48, 0) >> }

ExposureArgs == { Const(12, 1), Const(11, 1), Const(48, 2) }

(* requested walker counts, on both sides of 2*ndim and of 2*npix *)
NWalkersArgs == {1, 10, 24, 25}

(* parameter vectors handed to a transform *)
ParamVectors ==
    { << >>, << 3 >>, << 7 >>, << 1, 2 >>, Const(11, 2),
      [i \in 1..12 |-> i], Const(12, 4), Const(13, 2), Const(48, 4) }

(* an ensemble as a checkpoint record holds it (2 walkers, 1 parameter) *)
Ensemble(v) == << << [num |-> v, den |-> 1] >>, << [num |-> v + 1, den |-> 1] >> >>

(* the iteration records of a checkpoint written by an earlier run: k records
   with consecutive indices from c *)
Records(c, k) == [j \in 1..k |-> [index |-> c + j - 1, state |-> Ensemble(c + j)]]

NoFile == [exists |-> FALSE, meta |-> 0, records |-> << >>]

FilesOnDisk ==
    {NoFile} \cup
    { [exists |-> TRUE, meta |-> 1, records |-> Records(c, k)] :
        c \in {3}, k \in 0..MaxRecords }

(* ------------------------------- state --------------------------------- *)
VARIABLES
    args,          \* the client's data (RoModel arguments, maps, exposure) and, once
                   \* Sampler is called, the other arguments of that call
    rmodel,        \* the RoModel object: Unset, or Val(object)
    attrs,         \* names of the attributes assigned on the Sampler object so far
    self_nwalkers, \* Sampler._nwalkers
    self_state,    \* Sampler._state
    self_count,    \* Sampler._count
    warnings,      \* number of WARNING lines printed
    file,          \* the checkpoint file on disk
    h5py_file,     \* the file handle of the running call: "unbound", "open", "closed"
    closes,        \* number of times the running call closed its handle
    call,          \* the running (or last) call on the Sampler: arguments and outcome
    prev,          \* the call on the Sampler before that one, and the handle it left
    pre,           \* file and in-memory state when the running call began
    exc,           \* the exception propagating in the running call, or "none"
    ret,           \* what the last call gave the client, NoCall while a call runs
    pc             \* position of the program

vars == << args, rmodel, attrs, self_nwalkers, self_state, self_count, warnings,
           file, h5py_file, closes, call, prev, pre, exc, ret, pc >>

(* the arguments, the RoModel and the configuration half of the Sampler *)
config == << args, rmodel, attrs, self_nwalkers, warnings >>

(* the sampler state: ensemble and iteration count *)
session == << self_state, self_count >>

(* the handle of the running call *)
handle == << h5py_file, closes >>

NoCall == [op |-> "none", out |-> "none"]

Snapshot == [file |-> file, state |-> self_state, count |-> self_count]

History == [call |-> call, h5py_file |-> h5py_file]

Init ==
    /\ args \in [rmodel : RModelArgs, maps : MapsArgs, exposure : ExposureArgs]
    /\ rmodel = Unset
    /\ attrs = {}
    /\ self_nwalkers = Unset
    /\ self_state = Unset
    /\ self_count = Unset
    /\ warnings = 0
    /\ file \in FilesOnDisk
    /\ h5py_file = "unbound"
    /\ closes = 0
    /\ call = NoCall
    /\ prev = [call |-> NoCall, h5py_file |-> "unbound"]
    /\ pre = [file |-> file, state |-> Unset, count |-> Unset]
    /\ exc = "none"
    /\ ret = NoCall
    /\ pc = "start"

(* ---------------------- the client and the RoModel --------------------- *)
(* the client builds the RoModel: RoModel.__init__ *)
RoModel_new ==
    /\ pc = "start"
    /\ LET r == RoModel_init(args.rmodel.variant, args.rmodel.nside, args.rmodel.params) IN
         /\ rmodel' = IF r.out = "ok" THEN Val(r.obj) ELSE Unset
         /\ ret' = [op |-> "RoModel", out |-> r.out]
         /\ pc' = IF r.out = "ok" THEN "main" ELSE "halt"
    /\ UNCHANGED << args, attrs, self_nwalkers, warnings, session, file, handle,
                    call, prev, pre, exc >>

(* The calls on the RoModel change nothing but ret, so a second such call in
   a row reaches no state the first does not: the client makes them one at a
   time, from a state whose ret is not the result of one. *)
fresh == ret.op \notin {"ndim", "transform", "rmodel.initialize", "logpost"}

(* the client reads rmodel.ndim *)
Call_ndim ==
    /\ pc = "main"
    /\ fresh
    /\ ret' = [op |-> "ndim", res |-> ndim(rmodel.val)]
    /\ UNCHANGED << config, session, file, handle, call, prev, pre, exc, pc >>

(* the client calls rmodel(params) *)
Call_transform ==
    /\ pc = "main"
    /\ fresh
    /\ \E p \in ParamVectors :
         ret' = [op |-> "transform", params |-> p, res |-> transform(rmodel.val, p)]
    /\ UNCHANGED << config, session, file, handle, call, prev, pre, exc, pc >>

(* the client calls rmodel.initialize(maps, exposure, nwalkers) *)
Call_rmodel_initialize ==
    /\ pc = "main"
    /\ fresh
    /\ \E nw \in 1..MaxWalkers : \E draws \in [1..nw -> 1..MaxDraw] :
         ret' = [op |-> "rmodel.initialize", nwalkers |-> nw,
                 res |-> rmodel_initialize(rmodel.val, args.maps, args.exposure, nw, draws)]
    /\ UNCHANGED << config, session, file, handle, call, prev, pre, exc, pc >>

(* logpost keeping the last value it computed on the Sampler object *)
Call_logpost_caching ==
    /\ pc = "main"
    /\ fresh
    /\ \E p \in ParamVectors, e \in Evaluators :
         ret' = [op |-> "logpost", params |-> p, ro_post |-> e,
                 res |-> logpost(p, rmodel.val, e)]
    /\ attrs' = attrs \cup {"_lnprob"}
    /\ UNCHANGED << args, rmodel, self_nwalkers, warnings, session, file, handle,
                    call, prev, pre, exc, pc >>

(* the client, or the engine on its behalf, calls logpost(params, rmodel, ro_post) *)
Call_logpost ==
    /\ pc = "main"
    /\ fresh
    /\ \E p \in ParamVectors, e \in Evaluators :
         ret' = [op |-> "logpost", params |-> p, ro_post |-> e,
                 res |-> logpost(p, rmodel.val, e)]
    /\ UNCHANGED << config, session, file, handle, call, prev, pre, exc, pc >>

(* ------------------------- Sampler.__init__ ---------------------------- *)
(* A statement of __init__ that raises ends the construction: the exception
   reaches the client and no Sampler is bound. *)
Sampler_raise(e) ==
    /\ ret' = [op |-> "Sampler", out |-> e]
    /\ call' = [call EXCEPT !.out = e]
    /\ pc' = "main"

(* the client calls Sampler(nside, maps, exposure, kernel, rprior, rmodel, nwalkers) *)
Sampler_new ==
    /\ pc = "main"
    /\ attrs = {}
    /\ \E n \in NSides, k \in NSides, p \in NSides, w \in NWalkersArgs :
         args' = [rmodel |-> args.rmodel, maps |-> args.maps, exposure |-> args.exposure,
                  nside |-> n, kernel |-> [nside |-> k], rprior |-> [nside |-> p],
                  nwalkers |-> w]
    /\ call' = [op |-> "Sampler", out |-> "running"]
    /\ prev' = History
    /\ ret' = NoCall
    /\ pc' = "init_maps"
    /\ UNCHANGED << rmodel, attrs, self_nwalkers, warnings, session, file, handle,
                    pre, exc >>

(* _nside, _npix, and the assertion on every map *)
Sampler_maps ==
    /\ pc = "init_maps"
    /\ IF \A k \in DOMAIN args.maps : Len(args.maps[k]) = nside2npix(args.nside)
       THEN /\ attrs' = attrs \cup {"_nside", "_npix", "_maps"}
            /\ pc' = "init_exposure"
            /\ UNCHANGED << ret, call >>
       ELSE /\ attrs' = attrs \cup {"_nside", "_npix"}
            /\ Sampler_raise("AssertionError")
    /\ UNCHANGED << args, rmodel, self_nwalkers, warnings, session, file, handle,
                    prev, pre, exc >>

(* one asserted assignment of __init__: attribute a is set when ok holds *)
Sampler_assert(at, ok, a, next) ==
    /\ pc = at
    /\ IF ok
       THEN /\ attrs' = attrs \cup {a}
            /\ pc' = next
            /\ UNCHANGED << ret, call >>
       ELSE /\ attrs' = attrs
            /\ Sampler_raise("AssertionError")
    /\ UNCHANGED << args, rmodel, self_nwalkers, warnings, session, file, handle,
                    prev, pre, exc >>

Sampler_exposure ==
    Sampler_assert("init_exposure", Len(args.exposure) = nside2npix(args.nside),
                   "_exposure", "init_kernel")

Sampler_kernel ==
    Sampler_assert("init_kernel", args.kernel.nside = args.nside, "_kernel", "init_rprior")

Sampler_rprior ==
    Sampler_assert("init_rprior", args.rprior.nside = args.nside, "_rprior", "init_rmodel")

Sampler_rmodel ==
    Sampler_assert("init_rmodel", rmodel.val.nside = args.nside, "_rmodel", "init_posterior")

(* posterior.Ro and posterior.Ro_Eps are built *)
Sampler_posterior ==
    /\ pc = "init_posterior"
    /\ attrs' = attrs \cup {"_ro", "_ro_eps"}
    /\ pc' = "init_nwalkers"
    /\ UNCHANGED << args, rmodel, self_nwalkers, warnings, session, file, handle,
                    call, prev, pre, exc, ret >>

(* the walker count a request for nwalkers ends as, and whether it warns *)
effective_nwalkers(nwalkers, npix) == IF nwalkers < 2 * npix THEN 2 * npix ELSE nwalkers

warns(nwalkers, npix) == nwalkers < 2 * npix

Sampler_nwalkers ==
    /\ pc = "init_nwalkers"
    /\ self_nwalkers' = Val(effective_nwalkers(args.nwalkers, nside2npix(args.nside)))
    /\ warnings' = IF warns(args.nwalkers, nside2npix(args.nside))
                   THEN warnings + 1 ELSE warnings
    /\ attrs' = attrs \cup {"_nwalkers"}
    /\ pc' = "init_sampler"
    /\ UNCHANGED << args, rmodel, session, file, handle, call, prev, pre, exc, ret >>

(* the attribute names a Sampler object answers to beside those assigned in
   attrs: its properties *)
properties ==
    {"nside", "npix", "maps", "exposure", "kernel", "rprior", "Ro", "Ro_Eps",
     "RoModel", "nwalkers", "sampler", "state", "count"}

(* emcee.Sampler(self.nwalkers, self.rmodel.ndim, ...): the second argument
   reads self.rmodel, which is neither a property nor an assigned attribute;
   _sampler, _state and _count are never assigned *)
Sampler_sampler ==
    /\ pc = "init_sampler"
    /\ "rmodel" \notin properties \cup attrs
    /\ Sampler_raise("AttributeError")
    /\ UNCHANGED << config, session, file, handle, prev, pre, exc >>

(* ------------------- Sampler.initialize and sample --------------------- *)
(* Sampler(...) is the only source of Sampler objects, and __init__ raises in
   Sampler_sampler for every input that passes the assertions.  The receiver
   of initialize and sample is therefore the object as __init__ left it: the
   attributes of attrs are set, _sampler, _state and _count are not. *)
receiver == "_nwalkers" \in attrs

(* a method call ends: the exception e (or "none") reaches the client *)
Return(e) ==
    /\ ret' = [op |-> call.op, out |-> e]
    /\ call' = [call EXCEPT !.out = e]
    /\ exc' = "none"
    /\ pc' = "main"

(* the count setter, def count(self): it is called with the new value as a
   second argument, which its signature does not take *)
count_setter(new_count) == [out |-> "TypeError"]

(* the state setter: its assertion reads self.rmodel *)
state_setter(new_state) ==
    IF "rmodel" \in properties \cup attrs
    THEN [out |-> "AssertionError"]
    ELSE [out |-> "AttributeError"]

(* utils.from_hdf5: iteration index and ensemble of the last record of the file *)
from_hdf5(f) ==
    IF f.records = << >>
    THEN [out |-> "Error"]
    ELSE [out |-> "ok",
          count |-> f.records[Len(f.records)].index,
          state |-> f.records[Len(f.records)].state]

(* the client calls initialize(path) *)
initialize_call ==
    /\ pc = "main"
    /\ receiver
    /\ \E path \in BOOLEAN :
         /\ call' = [op |-> "initialize", path |-> path, out |-> "running"]
         /\ pc' = IF path THEN "initialize_open" ELSE "initialize_fresh"
    /\ ret' = NoCall
    /\ prev' = History
    /\ pre' = Snapshot
    /\ h5py_file' = "unbound"
    /\ closes' = 0
    /\ UNCHANGED << config, session, file, exc >>

(* path is None: self.count = 0 raises in the setter, before rmodel.initialize
   is called *)
initialize_fresh ==
    /\ pc = "initialize_fresh"
    /\ count_setter(0).out # "ok"
    /\ Return(count_setter(0).out)
    /\ UNCHANGED << config, session, file, handle, prev, pre >>

(* with h5py.File(path, 'r'): a file that does not exist cannot be opened *)
initialize_open ==
    /\ pc = "initialize_open"
    /\ IF file.exists
       THEN /\ h5py_file' = "open"
            /\ pc' = "initialize_load"
            /\ UNCHANGED << ret, exc, call >>
       ELSE /\ h5py_file' = h5py_file
            /\ Return("IOError")
    /\ UNCHANGED << config, session, file, closes, prev, pre >>

(* self.count, self.state, _, _ = utils.from_hdf5(h5py_file): the right-hand
   side is evaluated, then the first target, self.count, is assigned *)
initialize_load ==
    /\ pc = "initialize_load"
    /\ LET r == from_hdf5(file) IN
         exc' = IF r.out # "ok" THEN r.out ELSE count_setter(r.count).out
    /\ pc' = "initialize_exit"
    /\ UNCHANGED << config, session, file, handle, call, prev, pre, ret >>

(* the with block closes the file and lets the exception through *)
initialize_exit ==
    /\ pc = "initialize_exit"
    /\ h5py_file' = "closed"
    /\ closes' = closes + 1
    /\ Return(exc)
    /\ UNCHANGED << config, session, file, prev, pre >>

(* the client calls sample(num_samples, path=path) *)
sample_call ==
    /\ pc = "main"
    /\ receiver
    /\ \E n \in 0..MaxSamples : \E path \in BOOLEAN :
         /\ call' = [op |-> "sample", num_samples |-> n, path |-> path, out |-> "running"]
         /\ pc' = IF path THEN "sample_open" ELSE "sample_loop"
    /\ ret' = NoCall
    /\ prev' = History
    /\ pre' = Snapshot
    /\ h5py_file' = "unbound"
    /\ closes' = 0
    /\ UNCHANGED << config, session, file, exc >>

(* the open of sample with mode 'a' in place of 'w': an existing file keeps
   its content *)
sample_open_append ==
    /\ pc = "sample_open"
    /\ \E opened \in BOOLEAN :
         IF opened
         THEN /\ file' = [exists |-> TRUE, meta |-> file.meta, records |-> file.records]
              /\ h5py_file' = "open"
              /\ exc' = exc
              /\ pc' = "sample_init_hdf5"
         ELSE /\ file' = file
              /\ h5py_file' = h5py_file
              /\ exc' = "IOError"
              /\ pc' = "sample_finally"
    /\ UNCHANGED << config, session, closes, call, prev, pre, ret >>

(* h5py_file = h5py.File(path, 'w'): the file is created or truncated, or the
   open fails and h5py_file stays unbound *)
sample_open ==
    /\ pc = "sample_open"
    /\ \E opened \in BOOLEAN :
         IF opened
         THEN /\ file' = [exists |-> TRUE, meta |-> 0, records |-> << >>]
              /\ h5py_file' = "open"
              /\ exc' = exc
              /\ pc' = "sample_init_hdf5"
         ELSE /\ file' = file
              /\ h5py_file' = h5py_file
              /\ exc' = "IOError"
              /\ pc' = "sample_finally"
    /\ UNCHANGED << config, session, closes, call, prev, pre, ret >>

(* utils.init_hdf5(h5py_file, self.rmodel, ...): the second argument reads
   self.rmodel, so init_hdf5 is never entered and no metadata is written *)
sample_init_hdf5 ==
    /\ pc = "sample_init_hdf5"
    /\ "rmodel" \notin properties \cup attrs
    /\ exc' = "AttributeError"
    /\ pc' = "sample_finally"
    /\ UNCHANGED << config, session, file, handle, call, prev, pre, ret >>

(* the sampler property returns self.sampler, which is the property again:
   reading it ends in the interpreter's recursion limit *)
sampler_property == [out |-> "RuntimeError"]

(* for ... in enumerate(self.sampler.sample(self.state, ...)): self.sampler is
   read first, so the loop body is never entered *)
sample_loop ==
    /\ pc = "sample_loop"
    /\ sampler_property.out # "ok"
    /\ exc' = sampler_property.out
    /\ pc' = "sample_finally"
    /\ UNCHANGED << config, session, file, handle, call, prev, pre, ret >>

(* sample without the close of its finally block: the exception leaves the
   call with the handle as it is *)
sample_finally_leak ==
    /\ pc = "sample_finally"
    /\ Return(IF call.path /\ h5py_file = "unbound" THEN "UnboundLocalError" ELSE exc)
    /\ UNCHANGED handle
    /\ UNCHANGED << config, session, file, prev, pre >>

(* finally: if checkpoint, h5py_file.close(); when the open failed the name
   h5py_file is unbound and reading it raises in place of the open's error *)
sample_finally ==
    /\ pc = "sample_finally"
    /\ IF call.path
       THEN IF h5py_file = "unbound"
            THEN /\ Return("UnboundLocalError")
                 /\ UNCHANGED handle
            ELSE /\ h5py_file' = "closed"
                 /\ closes' = closes + 1
                 /\ Return(exc)
       ELSE /\ Return(exc)
            /\ UNCHANGED handle
    /\ UNCHANGED << config, session, file, prev, pre >>

Next ==
    \/ RoModel_new
    \/ Call_ndim
    \/ Call_transform
    \/ Call_rmodel_initialize
    \/ Call_logpost
    \/ Sampler_new
    \/ Sampler_maps
    \/ Sampler_exposure
    \/ Sampler_kernel
    \/ Sampler_rprior
    \/ Sampler_rmodel
    \/ Sampler_posterior
    \/ Sampler_nwalkers
    \/ Sampler_sampler
    \/ initialize_call
    \/ initialize_fresh
    \/ initialize_open
    \/ initialize_load
    \/ initialize_exit
    \/ sample_call
    \/ sample_open
    \/ sample_init_hdf5
    \/ sample_loop
    \/ sample_finally

Spec == Init /\ [][Next]_vars

(* ------------------------------ properties ----------------------------- *)
(* the last call on the Sampler was op and has ended *)
Ended(op) == call.op = op /\ call.out # "running"

(* the five checks of Sampler.__init__ on its arguments *)
checks_pass ==
    /\ \A k \in DOMAIN args.maps : Len(args.maps[k]) = nside2npix(args.nside)
    /\ Len(args.exposure) = nside2npix(args.nside)
    /\ args.kernel.nside = args.nside
    /\ args.rprior.nside = args.nside
    /\ rmodel.val.nside = args.nside

(* an ensemble of nw vectors of length d *)
HasShape(e, nw, d) == Len(e) = nw /\ \A w \in DOMAIN e : Len(e[w]) = d

(* every entry of an ensemble is a strictly positive rational *)
Positive(e) == \A w \in DOMAIN e : \A i \in DOMAIN e[w] : e[w][i].num > 0 /\ e[w][i].den > 0

LastRecord(f) == f.records[Len(f.records)]

(* C1: once the constructor has fixed the walker count, for a model of
   dimension d = rmodel.ndim and a requested count w, the effective walker
   count is max(w, 2*d), and a warning was printed exactly once when w < 2*d
   and never otherwise. *)
C1_EffectiveWalkers ==
    ("_nwalkers" \in attrs /\ ndim(rmodel.val).out = "ok") =>
        LET d == ndim(rmodel.val).val
            w == args.nwalkers
        IN  /\ self_nwalkers = Val(IF w < 2 * d THEN 2 * d ELSE w)
            /\ warnings = IF w < 2 * d THEN 1 ELSE 0

(* C2: when Sampler(...) has ended, it succeeded if and only if the five
   checks pass (map lengths, exposure length, kernel, prior and RoModel
   resolution); when a check fails it ended in the configuration error and
   no sampling state (ensemble, count, engine) was created. *)
C2_ConstructionIff ==
    Ended("Sampler") =>
        /\ (call.out = "none") <=> checks_pass
        /\ ~checks_pass =>
              /\ call.out = "AssertionError"
              /\ self_state = Unset
              /\ self_count = Unset
              /\ "_sampler" \notin attrs

(* C3: a call sample(N, path) that opened its checkpoint completes normally
   and leaves a file holding exactly N iteration records written by the call,
   with consecutive indices from the iteration count held when the call
   began, each with an ensemble of shape (walker count, ndim). *)
C3_RecordsWritten ==
    (Ended("sample") /\ call.path /\ h5py_file = "closed") =>
        /\ call.out = "none"
        /\ Len(file.records) = call.num_samples
        /\ \A j \in DOMAIN file.records :
              /\ file.records[j].index = pre.count.val + j - 1
              /\ HasShape(file.records[j].state, self_nwalkers.val, ndim(rmodel.val).val)

(* C4: initialize(path) on a checkpoint holding at least one record sets the
   iteration count and the ensemble to the index and the ensemble of the last
   record of the file. *)
C4_ResumeRoundTrip ==
    (Ended("initialize") /\ call.path /\ file.exists /\ file.records # << >>) =>
        /\ self_count = Val(LastRecord(file).index)
        /\ self_state = Val(LastRecord(file).state)

(* C5: after initialize(path) on a checkpoint whose records end at index l,
   the following sample(N, path) completes and writes N records with the
   indices l+1 .. l+N: with the records of the first run they are consecutive,
   none missing and none twice. *)
C5_ResumeContinues ==
    ( /\ Ended("sample") /\ call.path /\ h5py_file = "closed"
      /\ prev.call.op = "initialize" /\ prev.call.path
      /\ pre.file.records # << >> ) =>
        /\ call.out = "none"
        /\ Len(file.records) = call.num_samples
        /\ \A j \in DOMAIN file.records :
              file.records[j].index = LastRecord(pre.file).index + j

(* C6: sample(N), with a checkpoint path or without, completes and leaves
   the iteration count at the count held when the call began plus N, and an
   ensemble in memory. *)
C6_InMemoryAdvance ==
    (Ended("sample") /\ (call.path => h5py_file = "closed")) =>
        /\ call.out = "none"
        /\ self_state.set
        /\ self_count = Val(pre.count.val + call.num_samples)

(* C7: when the checkpoint cannot be opened, sample(N, path) ends reporting
   the failure of the open, the ensemble and the iteration count are what they
   were before the call, and a sample(N) without a path that follows
   completes. *)
C7_OpenFailure ==
    /\ (Ended("sample") /\ call.path /\ h5py_file = "unbound") =>
          /\ call.out = "IOError"
          /\ self_state = pre.state
          /\ self_count = pre.count
    /\ ( /\ Ended("sample") /\ ~call.path
         /\ prev.call.op = "sample" /\ prev.call.path /\ prev.h5py_file = "unbound" ) =>
          call.out = "none"

(* C8: after a call sample(N, path) that opened its checkpoint, the file
   holds exactly one metadata record and no iteration record of the file as
   it was before the call. *)
C8_FreshCheckpoint ==
    (Ended("sample") /\ call.path /\ h5py_file = "closed") =>
        /\ file.exists
        /\ file.meta = 1
        /\ Range(file.records) \cap Range(pre.file.records) = {}

(* C9: for every variant with a dimension, rmodel.initialize(maps, exposure,
   nwalkers) returns nwalkers vectors of length ndim with strictly positive
   entries; and Sampler.initialize() without a path ends with the iteration
   count 0 and an ensemble of shape (walker count, ndim) in memory. *)
C9_Initialize ==
    /\ (ret.op = "rmodel.initialize" /\ ndim(rmodel.val).out = "ok") =>
          /\ ret.res.out = "ok"
          /\ HasShape(ret.res.val, ret.nwalkers, ndim(rmodel.val).val)
          /\ Positive(ret.res.val)
    /\ (Ended("initialize") /\ ~call.path) =>
          /\ self_count = Val(0)
          /\ self_state.set
          /\ HasShape(self_state.val, self_nwalkers.val, ndim(rmodel.val).val)

(* the outcomes of a transform that reject the parameter vector for its size *)
DimensionErrors == {"ValueError", "TypeError"}

(* C10: for every variant with a dimension, a transform of a parameter
   vector whose length is not ndim fails with a dimension error and returns
   no field. *)
C10_TransformRejects ==
    ( /\ ret.op = "transform"
      /\ ndim(rmodel.val).out = "ok"
      /\ Len(ret.params) # ndim(rmodel.val).val ) =>
        ret.res.out \in DimensionErrors

IsIso == rmodel.set /\ rmodel.val.variant = "IsoRoModel"

(* C11: the Isotropic transform of a one-element parameter vector returns a
   field whose length is the pixel count of the model's resolution and whose
   every pixel equals params[0]. *)
C11_IsotropicUniform ==
    (IsIso /\ ret.op = "transform" /\ Len(ret.params) = 1) =>
        /\ ret.res.out = "ok"
        /\ Len(ret.res.val) = nside2npix(rmodel.val.nside)
        /\ \A i \in DOMAIN ret.res.val : ret.res.val[i] = ret.params[1]

(* an Isotropic model at nside = 2 has transformed a one-element vector *)
C11_Witness ==
    /\ IsIso /\ rmodel.val.nside = 2
    /\ ret.op = "transform" /\ Len(ret.params) = 1
    /\ Len(ret.res.val) = 48

IsHarmonic == rmodel.set /\ rmodel.val.variant \in {"YlmRoModel", "ExpYlmRoModel"}

(* the outcomes raised for bad input: a failed configuration assertion, a
   parameter vector of the wrong size *)
BadInputErrors == {"AssertionError"} \cup DimensionErrors

(* C12: on a harmonic model (YlmRoModel, ExpYlmRoModel) each of ndim, the
   transform and initialize ends, for every input, in NotImplementedError,
   which is none of the errors raised for bad input, and returns no value. *)
C12_HarmonicUnsupported ==
    (IsHarmonic /\ ret.op \in {"ndim", "transform", "rmodel.initialize"}) =>
        /\ ret.res.out = "NotImplementedError"
        /\ ret.res.out \notin BadInputErrors
        /\ ret.res.out # "ok"

(* initialize of a HarmonicExp model has been called and has raised *)
C12_Witness ==
    /\ rmodel.set /\ rmodel.val.variant = "ExpYlmRoModel"
    /\ ret.op = "rmodel.initialize"
    /\ ret.res.out = "NotImplementedError"

(* C15: when a call sample(N, path) that opened its checkpoint has ended, on
   whichever path, the handle has been closed exactly once; and no call leaves
   a handle open behind it. *)
C15_HandleClosed ==
    /\ (Ended("sample") /\ call.path /\ h5py_file # "unbound") =>
          /\ h5py_file = "closed"
          /\ closes = 1
    /\ pc = "main" => h5py_file # "open"
    /\ closes <= 1

(* a sample call opened the file, failed at the metadata and has ended *)
C15_Witness ==
    /\ Ended("sample") /\ call.path
    /\ call.out = "AttributeError"
    /\ h5py_file = "closed"
    /\ closes = 1

(* the records the file held when the call began are still in it, unaltered *)
EarlierRecordsIntact ==
    \A j \in DOMAIN pre.file.records :
        j \in DOMAIN file.records /\ file.records[j] = pre.file.records[j]

(* C16 as stated: a call sample(N, path) that aborts with an error, at the
   open, at the metadata or later, leaves every record the file held before
   the call intact. *)
C16_EarlierRecordsIntact ==
    (Ended("sample") /\ call.path /\ call.out # "none") => EarlierRecordsIntact

(* C16 as amended: a call sample(N, path) that aborts because the checkpoint
   cannot be opened leaves the file as it was, every earlier record intact; a
   call that aborts after the open has replaced the file, which holds no
   iteration record of before the call. *)
C16_IntactUnlessOpened ==
    (Ended("sample") /\ call.path /\ call.out # "none") =>
        /\ h5py_file = "unbound" => file = pre.file
        /\ h5py_file # "unbound" => file.exists /\ file.records = << >>

(* a sample call on a path holding earlier records failed at the open *)
C16_Witness ==
    /\ Ended("sample") /\ call.path /\ call.out # "none"
    /\ h5py_file = "unbound"
    /\ pre.file.records # << >>
    /\ file = pre.file

IsoInitialized == IsIso /\ ret.op = "rmodel.initialize"

(* every starting value is one Gamma draw over the summed exposure *)
DividedByExposure ==
    /\ ret.res.out = "ok"
    /\ Len(ret.res.val) = ret.nwalkers
    /\ \A w \in DOMAIN ret.res.val :
         /\ Len(ret.res.val[w]) = 1
         /\ ret.res.val[w][1].num \in 1..MaxDraw
         /\ ret.res.val[w][1].den = SumSeq(args.exposure)

(* C17 as stated: IsoRoModel.initialize draws its nwalkers starting values
   from a Gamma law whose shape is the count summed over all pixels of all
   maps, plus one (so 1 for all-zero maps, however many), and divides each
   draw by the total exposure. *)
C17_ShapeFromTotalCount ==
    IsoInitialized =>
        /\ ret.res.shape = TotalCount(args.maps) + 1
        /\ DividedByExposure

(* C17 as amended: IsoRoModel.initialize draws its nwalkers starting values
   from a Gamma law whose shape is the number of maps supplied, plus one,
   whatever the maps hold, and divides each draw by the total exposure. *)
C17_ShapeFromMapCount ==
    IsoInitialized =>
        /\ ret.res.shape = Len(args.maps) + 1
        /\ DividedByExposure

(* the isotropic model was initialized from all-zero maps *)
C17_Witness ==
    /\ IsoInitialized
    /\ TotalCount(args.maps) = 0
    /\ ret.res.shape = Len(args.maps) + 1
    /\ ret.nwalkers = MaxWalkers

(* C18: once a call of initialize or of sample has ended on a session, the
   session holds an iteration count that is a non-negative integer, not below
   the count held when the call began, and moved only by a sample call, by one
   for each of its iterations. *)
C18_CountMonotonic ==
    (Ended("initialize") \/ Ended("sample")) =>
        /\ self_count.set
        /\ self_count.val \in Nat
        /\ pre.count.set => self_count.val >= pre.count.val
        /\ (pre.count.set /\ self_count # pre.count) =>
              /\ call.op = "sample"
              /\ self_count.val <= pre.count.val + call.num_samples

(* C19: after initialize, fresh or resumed, the ensemble in memory has the
   session's walker count of vectors, each of length ndim; a resumed ensemble
   of another shape is rejected and the ensemble is left as it was; the walker
   count is at least 2*ndim. *)
C19_EnsembleShape ==
    (receiver /\ ndim(rmodel.val).out = "ok") =>
        LET d == ndim(rmodel.val).val
            resumed == call.path /\ file.exists /\ file.records # << >>
        IN  /\ self_nwalkers.val >= 2 * d
            /\ (Ended("initialize") /\ ~call.path) =>
                  /\ self_state.set
                  /\ HasShape(self_state.val, self_nwalkers.val, d)
            /\ (Ended("initialize") /\ resumed) =>
                  IF HasShape(LastRecord(file).state, self_nwalkers.val, d)
                  THEN self_state = Val(LastRecord(file).state)
                  ELSE call.out # "none" /\ self_state = pre.state

(* a call of initialize or of sample is under way *)
InMethod == call.op \in {"initialize", "sample"} /\ call.out = "running"

(* C20: no step of initialize or of sample changes the arguments of the
   session (resolution, maps, exposure, kernel, prior), the RoModel, the
   attributes set by the constructor (the posterior evaluators among them) or
   the walker count: such a step changes only the ensemble, the iteration
   count, the file and its handle; and an evaluation of logpost changes
   nothing but the value it returns. *)
C20_Frame ==
    [][ /\ (InMethod \/ InMethod') => UNCHANGED config
        /\ ret'.op = "logpost" =>
              UNCHANGED << config, session, file, handle, call, prev, pre, exc, pc >>
      ]_vars

(* logpost returned a value on a session whose sample call has replaced the
   checkpoint file *)
C20_Witness ==
    /\ ret.op = "logpost" /\ ret.res.out = "ok"
    /\ Ended("sample") /\ call.path
    /\ file # pre.file
    /\ prev.call.op = "initialize"

====
